---------------------------- MODULE Spec2Model ----------------------------
(***************************************************************************)
(* A model of blaze.server.server: the expression-tree wire codec          *)
(* (to_tree / from_tree / expression_from_name) and the request handlers   *)
(* of the HTTP API (/datashape, /compute, /add) with their decorators      *)
(* (authorization, check_request).                                         *)
(*                                                                         *)
(* Values are tagged tuples, the tag first, so that values of different    *)
(* kinds are always comparable:                                            *)
(*   in-memory values                                                      *)
(*     <<"prim", s>>            a base value (str, number, None, ...)      *)
(*     <<"tuple", <<v, ...>>>>  a Python tuple                             *)
(*     <<"pyslice", a, b, c>>   a builtin slice                            *)
(*     <<"_slice", <<a, ...>>>> blaze.expr.utils._slice, holding its args  *)
(*     <<"expr", cls, <<a, ...>>>>  an Expr of class cls with _args        *)
(*   wire values                                                           *)
(*     <<"prim", s>>, <<"list", <<w, ...>>>>, <<"dict", op, <<w, ...>>>>   *)
(*   a raised exception, as the result of a function                       *)
(*     <<"raise", kind, message>>                                          *)
(***************************************************************************)
EXTENDS Integers, Sequences, FiniteSets, TLC

\* ------------------------------------------------------------ bounds

\* Nesting depth of the expressions the codec is exercised on.
MaxDepth == 2
\* Length of a request body that no format decodes.
MaxBody == 2
\* Requests served one after the other by a server.
MaxServed == 2
\* Handler threads of a threaded server.
NumWorkers == 2

\* ------------------------------------------------- classes and namespaces

NoneV == <<"prim", "None">>

SymbolCls == "blaze.expr.Symbol"
InteractiveSymbolCls == "blaze.interactive.InteractiveSymbol"
FieldCls == "blaze.expr.Field"
SumCls == "blaze.expr.sum"
SliceCls == "blaze.expr.Slice"
\* A class that only the compute_up catalogue knows (no attribute of blaze
\* or blaze.expr has its name).
MergeCls == "blaze.expr.collections.Merge"
\* Two different objects exported under one name, Data, by the top-level
\* package and by the expression module.
TopDataCls == "blaze.Data"
ExprDataCls == "blaze.expr.Data"

\* type(expr).__name__
ClassName(cls) ==
    CASE cls = SymbolCls -> "Symbol"
      [] cls = InteractiveSymbolCls -> "InteractiveSymbol"
      [] cls = FieldCls -> "Field"
      [] cls = SumCls -> "sum"
      [] cls = SliceCls -> "Slice"
      [] cls = MergeCls -> "Merge"
      [] cls = TopDataCls -> "Data"
      [] cls = ExprDataCls -> "Data"
      [] OTHER -> "?"

\* The attributes of the package blaze: name -> object.
BlazeNamespace ==
    [n \in {"Symbol", "Field", "sum", "Slice", "Data", "InteractiveSymbol"} |->
        CASE n = "Symbol" -> SymbolCls
          [] n = "Field" -> FieldCls
          [] n = "sum" -> SumCls
          [] n = "Slice" -> SliceCls
          [] n = "Data" -> TopDataCls
          [] n = "InteractiveSymbol" -> InteractiveSymbolCls]

\* The attributes of the module blaze.expr: name -> object.
BlazeExprNamespace ==
    [n \in {"Symbol", "Field", "sum", "Slice", "Data"} |->
        CASE n = "Symbol" -> SymbolCls
          [] n = "Field" -> FieldCls
          [] n = "sum" -> SumCls
          [] n = "Slice" -> SliceCls
          [] n = "Data" -> ExprDataCls]

\* compute_up.funcs: the first type of every registered signature, in the
\* order of iteration.
ComputeUpSignatures == <<FieldCls, MergeCls, SumCls>>

\* The operation tags that contain the text "Symbol" ('Symbol' in op).
SymbolLikeTags == {"Symbol", "InteractiveSymbol"}

IsRaise(v) == v[1] = "raise"

\* The first exception raised while a list comprehension evaluates its
\* elements in order, or NoneV when none is raised.
FirstRaise(seq) ==
    IF \E i \in DOMAIN seq : IsRaise(seq[i])
    THEN seq[CHOOSE i \in DOMAIN seq :
                /\ IsRaise(seq[i])
                /\ \A j \in DOMAIN seq : IsRaise(seq[j]) => i <= j]
    ELSE NoneV

\* symbol(name, dshape): a Symbol with the default token.
symbol(name, dshape) == <<"expr", SymbolCls, <<name, dshape, NoneV>>>>

\* _slice.as_slice(): slice(*self.args), with the builtin's defaults.
as_slice(s) ==
    LET args == s[2]
    IN  CASE Len(args) = 1 -> <<"pyslice", NoneV, args[1], NoneV>>
          [] Len(args) = 2 -> <<"pyslice", args[1], args[2], NoneV>>
          [] OTHER -> <<"pyslice", args[1], args[2], args[3]>>

\* ------------------------------------------------------------ to_tree

RECURSIVE to_tree(_, _)
to_tree(expr, names) ==
    IF DOMAIN names # {} /\ expr \in DOMAIN names
    THEN names[expr]
    ELSE CASE expr[1] = "tuple" ->
                <<"list", [i \in DOMAIN expr[2] |-> to_tree(expr[2][i], names)]>>
           [] expr[1] = "_slice" -> to_tree(as_slice(expr), names)
           [] expr[1] = "pyslice" ->
                <<"dict", "slice",
                  <<to_tree(expr[2], names), to_tree(expr[3], names),
                    to_tree(expr[4], names)>> >>
           [] expr[1] = "expr" /\ expr[2] = InteractiveSymbolCls ->
                \* _args of an InteractiveSymbol: (data, dshape, _name)
                to_tree(symbol(expr[3][3], expr[3][2]), names)
           [] expr[1] = "expr" /\ expr[2] # InteractiveSymbolCls ->
                <<"dict", ClassName(expr[2]),
                  [i \in DOMAIN expr[3] |-> to_tree(expr[3][i], names)]>>
           [] OTHER -> expr

\* ------------------------------------------------- expression_from_name

\* The positions of the compute_up signatures whose first type is named name.
SignatureHits(name) ==
    {i \in DOMAIN ComputeUpSignatures : ClassName(ComputeUpSignatures[i]) = name}

\* The result is <<"class", cls>>, or the ValueError raised.
expression_from_name(name) ==
    IF name \in DOMAIN BlazeNamespace THEN <<"class", BlazeNamespace[name]>>
    ELSE IF name \in DOMAIN BlazeExprNamespace
    THEN <<"class", BlazeExprNamespace[name]>>
    ELSE IF SignatureHits(name) # {}
    THEN <<"class", ComputeUpSignatures[
                CHOOSE i \in SignatureHits(name) :
                    \A j \in SignatureHits(name) : i <= j]>>
    ELSE <<"raise", "ValueError", name>>

\* ------------------------------------------------------------ from_tree

\* NodeClass asking expression_from_name alone.
NodeClass_ResolverOnly(op) == expression_from_name(op)

\* The class from_tree builds a node of tag op with.
NodeClass(op) ==
    IF op \in DOMAIN BlazeExprNamespace THEN <<"class", BlazeExprNamespace[op]>>
    ELSE expression_from_name(op)

\* Substitute replacing nothing.
Substitute_Never(expr, namespace) == expr

\* The last branch of from_tree: a value that is a key of the namespace is
\* replaced by its binding.
Substitute(expr, namespace) ==
    IF DOMAIN namespace # {} /\ expr[1] = "prim" /\ expr[2] \in DOMAIN namespace
    THEN namespace[expr[2]]
    ELSE expr

EmptyNamespace == [k \in {} |-> NoneV]

RECURSIVE from_tree(_, _)
from_tree(expr, namespace) ==
    CASE expr[1] = "dict" ->
            LET op == expr[2]
                args == expr[3]
            IN  IF op = "slice"
                THEN LET children == [i \in DOMAIN args |->
                                         from_tree(args[i], namespace)]
                     IN  IF FirstRaise(children) # NoneV
                         THEN FirstRaise(children)
                         ELSE <<"_slice", children>>
                ELSE LET cls == NodeClass(op)
                     IN  IF IsRaise(cls) THEN cls
                         ELSE LET children ==
                                    IF op \in SymbolLikeTags
                                    THEN [i \in DOMAIN args |->
                                            from_tree(args[i], EmptyNamespace)]
                                    ELSE [i \in DOMAIN args |->
                                            from_tree(args[i], namespace)]
                              IN  IF FirstRaise(children) # NoneV
                                  THEN FirstRaise(children)
                                  ELSE <<"expr", cls[2], children>>
      [] expr[1] = "list" ->
            LET children == [i \in DOMAIN expr[2] |->
                                from_tree(expr[2][i], namespace)]
            IN  IF FirstRaise(children) # NoneV
                THEN FirstRaise(children)
                ELSE <<"tuple", children>>
      [] OTHER -> Substitute(expr, namespace)

\* ------------------------------------------------------- base values

TrueV == <<"prim", "True">>
FalseV == <<"prim", "False">>
ResponseSink == <<"prim", ":response">>

\* bool(v) of a base value.
Truthy(v) == v \notin {NoneV, FalseV, <<"prim", "">>}

\* mapping.get(key, default) of a decoded mapping <<"map", f>>.
Get(mapping, key, default) ==
    IF key \in DOMAIN mapping[2] THEN mapping[2][key] ELSE default

\* ------------------------------------------------- server construction

\* The names of serialization.all_formats, which mimetype_regex is built of.
AllFormatNames == {"json", "msgpack", "pickle"}

\* The arguments Server(...) is constructed with.
ServerOptions ==
    [formats : {{"json"}, {"json", "custom"}},
     authorization : {"None", "check_alice"},
     allow_profiler : BOOLEAN,
     profiler_output : {NoneV, ResponseSink, <<"prim", "profiles">>},
     profile_by_default : BOOLEAN]

\* _register_api raises ValueError for these options.
RegistrationRaises(options) ==
    /\ ~options.allow_profiler
    /\ (Truthy(options.profiler_output) \/ options.profile_by_default)

\* What _register_api stores in the per-app caches (the data apart).
RegisteredConfig(options) ==
    [formats |-> options.formats,
     auth |-> IF options.authorization = "None" THEN "allow_all"
              ELSE options.authorization,
     allow_profiler |-> options.allow_profiler,
     profiler_output |->
        IF options.allow_profiler /\ options.profiler_output = NoneV
        THEN <<"prim", "profiler_output">>
        ELSE options.profiler_output,
     profile_by_default |-> options.profile_by_default]

\* A path is the sequence of its components; os.path.join(dir, name) with a
\* relative name.
PathJoin(dir, name) == Append(dir, name)

\* ensure_dir(path): os.makedirs, an existing directory being no error.
ensure_dir(filesystem, path) ==
    [filesystem EXCEPT
        !.dirs = @ \cup {SubSeq(path, 1, n) : n \in 1..Len(path)}]

EmptyFilesystem == [dirs |-> {}, files |-> {}]

\* The filesystem after _register_api.
RegisteredFilesystem(options) ==
    LET config == RegisteredConfig(options)
    IN  IF config.allow_profiler /\ config.profiler_output # ResponseSink
        THEN ensure_dir(EmptyFilesystem, <<config.profiler_output[2]>>)
        ELSE EmptyFilesystem

\* The datasets a server is constructed with: a dict of named datasets, or
\* one dataset that is no mutable mapping.
InitialData ==
    {<<"dict", [n \in {"accounts"} |-> <<"frame", "accounts">>]>>,
     <<"other", <<"frame", "accounts">>>>}

\* The auth predicate of the server on request.authorization ("None" when
\* the request carries no credential).
AuthPredicate(auth, credential) ==
    CASE auth = "allow_all" -> TRUE
      [] auth = "check_alice" -> credential = "alice"

Credentials == {"None", "alice", "mallory"}

\* discover(dataset): the datashape of the hosted data.
discover(dataset) ==
    IF dataset[1] = "dict" THEN <<"dshape", DOMAIN dataset[2]>>
    ELSE <<"dshape", {dataset[2]}>>

\* ------------------------------------------------------ request inputs

Endpoints == {"datashape", "compute", "add"}

\* The content-type header of a request: absent, or <<"ct", prefix, name>>
\* for the text prefix followed by name.
ContentTypeHeaders ==
    {<<"absent">>, <<"ct", "text/plain", "">>,
     <<"ct", "application/vnd.x+", "json">>}
    \cup {<<"ct", "application/vnd.blaze+", f>> : f \in {"json", "pickle", "custom"}}

\* What request.headers holds for a header: the WSGI layer either leaves the
\* key of an absent header out of the environ or sets it to the empty text.
EnvironValues(header) ==
    IF header = <<"absent">> THEN {<<"absent">>, <<"ct", "", "">>} ELSE {header}

\* mimetype_regex.match(content_type): the group matched, or no match.
mimetype_regex(content_type) ==
    IF content_type[2] = "application/vnd.blaze+" /\ content_type[3] \in AllFormatNames
    THEN <<"match", content_type[3]>>
    ELSE <<"nomatch">>

Absent == <<"absent">>
LeafAlias == <<"prim", ":leaf">>

\* The wire trees sent as the expr of a /compute payload.
GoodExprTree ==
    <<"dict", "sum", << <<"dict", "Field", <<LeafAlias, <<"prim", "amount">> >> >> >> >>
UnknownOpTree == <<"dict", "NotARealOp", << >> >>
TwoLeavesTree ==
    <<"dict", "Merge",
      <<LeafAlias,
        <<"dict", "Symbol", << <<"prim", "t">>, <<"prim", "int32">>, NoneV>> >> >> >>
NoLeafTree == <<"prim", "5">>

\* A decoded mapping with the keys whose value is not Absent.
MapOf(all) == <<"map", [k \in {k \in DOMAIN all : all[k] # Absent} |-> all[k]]>>

ComputePayloads ==
    {MapOf([profile |-> p, profiler_output |-> o, expr |-> e]) :
        p \in {Absent, TrueV, FalseV},
        o \in {Absent, NoneV, ResponseSink, <<"prim", "elsewhere">>},
        e \in {Absent, GoodExprTree, UnknownOpTree, TwoLeavesTree, NoLeafTree}}

GoodUri == <<"prim", "sqlite:///db">>
OtherUri == <<"prim", "sqlite:///other">>
BadDescriptor == <<"prim", "5">>

AddPayloads ==
    {MapOf([x |-> a, accounts |-> b]) :
        a \in {Absent, GoodUri, BadDescriptor}, b \in {Absent, GoodUri}}

\* A decoded body that is no mapping.
ListPayload == <<"list", << >> >>

PayloadsOf(endpoint) ==
    IF endpoint = "add" THEN AddPayloads \cup {ListPayload}
    ELSE ComputePayloads \cup {ListPayload}

\* The bytes of a body no format decodes.
GarbageBytes == UNION {[1..n -> {"{", "x"}] : n \in 1..MaxBody}

\* A request body: its bytes and what serial.loads makes of them.
BodiesOf(endpoint) ==
    {[raw |-> <<"serialized">>, loads |-> p] : p \in PayloadsOf(endpoint)}
    \cup {[raw |-> g, loads |-> <<"raise", "ValueError", "loads">>] : g \in GarbageBytes}
    \cup {[raw |-> <<"x">>, loads |-> <<"raise", "TypeError", "loads">>]}

\* What the engine (compute) or serial.materialize raises.
EngineErrors ==
    {[kind |-> "NotImplementedError", unsupported |-> TRUE, msg |-> "no backend"],
     [kind |-> "ValueError", unsupported |-> FALSE, msg |-> "bad value"]}

\* resource(descriptor) of odo: the resource, or the exception raised.
resource(descriptor) ==
    IF descriptor \in {GoodUri, OtherUri} THEN <<"resource", descriptor[2]>>
    ELSE <<"raise", "NotImplementedError", "resource">>

\* expr._leaves(): the distinct Symbol nodes of an expression.
RECURSIVE Leaves(_)
Leaves(e) ==
    CASE e[1] = "expr" /\ e[2] \in {SymbolCls, InteractiveSymbolCls} -> {e}
      [] e[1] = "expr" /\ e[2] \notin {SymbolCls, InteractiveSymbolCls} ->
            UNION {Leaves(e[3][i]) : i \in DOMAIN e[3]}
      [] e[1] = "tuple" -> UNION {Leaves(e[2][i]) : i \in DOMAIN e[2]}
      [] OTHER -> {}

\* --------------------------------------------------------------- state

VARIABLES
    config,     \* _get_format/_get_auth/_get_profiler_info caches of the app
    data,       \* _get_data.cache[app]: the hosted data
    filesystem, \* the directories and files of the local filesystem
    req,        \* per handler thread: the request it is serving
    served,     \* requests answered so far
    cExpr, cNames, cTree, cBack, cpc    \* the codec exercised on its own

serverVars == <<config, data, filesystem, req, served>>
codecVars == <<cExpr, cNames, cTree, cBack, cpc>>
vars == <<config, data, filesystem, req, served, cExpr, cNames, cTree, cBack, cpc>>

Workers == 1..NumWorkers

NoReply == [status |-> 0, text |-> <<"none">>, headers |-> {}, raised |-> "none"]

NoError == [kind |-> "none", unsupported |-> FALSE, msg |-> ""]

\* The response dict of compserver, not built yet.
NoResponse ==
    [datashape |-> Absent, data |-> Absent, names |-> Absent,
     profiler_output |-> Absent]

\* The state of a handler thread between two requests.
IdleReq ==
    [pc |-> "idle", endpoint |-> "none", credential |-> "None",
     header |-> Absent, body |-> [raw |-> << >>, loads |-> Absent],
     payload |-> Absent, serial |-> "none",
     profiling |-> FALSE, profiler_output |-> Absent,
     profiler |-> "none", disables |-> 0, stack |-> << >>,
     expr |-> Absent, error |-> NoError, result |-> "none",
     resources |-> EmptyNamespace,
     response |-> NoResponse, reply |-> NoReply, calls |-> << >>]

\* return (text, status) / return Response(text, status, headers)
Reply(status, text, headers) ==
    [status |-> status, text |-> text, headers |-> headers, raised |-> "none"]

\* An exception leaves the view function.
Raised(kind) ==
    [status |-> 0, text |-> <<"none">>, headers |-> {}, raised |-> kind]

\* CloseStack dropping the callbacks without running them.
CloseStack_NoCallbacks(rq) == [rq EXCEPT !.stack = << >>]

\* The ExitStack of compserver is left: its callbacks run, last first. The
\* only callback ever pushed is profiler.disable.
CloseStack(rq) ==
    IF rq.stack = << >> THEN rq
    ELSE [rq EXCEPT !.stack = << >>,
                    !.profiler = "disabled",
                    !.disables = @ + 1,
                    !.calls = Append(@, "profiler.disable")]

\* The handler thread is done with the request, with this reply.
Done(rq, reply) == [rq EXCEPT !.pc = "done", !.reply = reply]

ServerInit ==
    \E options \in ServerOptions :
        /\ ~RegistrationRaises(options)
        /\ config = RegisteredConfig(options)
        /\ filesystem = RegisteredFilesystem(options)
        /\ data \in InitialData
        /\ req = [w \in Workers |-> IdleReq]
        /\ served = 0

CodecIdle ==
    /\ cExpr = NoneV
    /\ cNames = EmptyNamespace
    /\ cTree = NoneV
    /\ cBack = NoneV
    /\ cpc = "off"

Init == ServerInit /\ CodecIdle

\* --------------------------------------------------------- the handlers

\* A request is routed to the view function of its endpoint.
Arrive(w) ==
    /\ req[w].pc = "idle"
    /\ served < MaxServed
    /\ \E endpoint \in Endpoints :
        req' = [req EXCEPT ![w] = [IdleReq EXCEPT !.pc = "authorized",
                                                  !.endpoint = endpoint]]
    /\ UNCHANGED <<config, data, filesystem, served, codecVars>>

\* authorized with the predicate consulted only for a request that carries a
\* credential.
authorized_CredentialOnly(w) ==
    /\ req[w].pc = "authorized"
    /\ \E credential \in Credentials :
        LET rq == [req[w] EXCEPT !.credential = credential,
                                 !.calls = Append(@, "auth")]
        IN  IF credential # "None" /\ ~AuthPredicate(config.auth, credential)
            THEN req' = [req EXCEPT ![w] =
                    Done(rq, Reply(401, <<"bad auth token">>,
                                   {"WWW-Authenticate"}))]
            ELSE req' = [req EXCEPT ![w] =
                    [rq EXCEPT !.pc = IF rq.endpoint = "datashape"
                                      THEN "shape" ELSE "check"]]
    /\ UNCHANGED <<config, data, filesystem, served, codecVars>>

\* authorization(f).authorized
authorized(w) ==
    /\ req[w].pc = "authorized"
    /\ \E credential \in Credentials :
        LET rq == [req[w] EXCEPT !.credential = credential,
                                 !.calls = Append(@, "auth")]
        IN  IF ~AuthPredicate(config.auth, credential)
            THEN req' = [req EXCEPT ![w] =
                    Done(rq, Reply(401, <<"bad auth token">>,
                                   {"WWW-Authenticate"}))]
            ELSE req' = [req EXCEPT ![w] =
                    [rq EXCEPT !.pc = IF rq.endpoint = "datashape"
                                      THEN "shape" ELSE "check"]]
    /\ UNCHANGED <<config, data, filesystem, served, codecVars>>

\* The view function of the endpoint, which check calls with the payload.
HandlerOf(endpoint) == IF endpoint = "add" THEN "addserver" ELSE "compserver"

\* BadData echoing the first byte of the body only.
BadData_FirstByte(raw) ==
    [status |-> 400, text |-> <<"Bad data.  Got %s ", SubSeq(raw, 1, 1)>>,
     headers |-> {}, raised |-> "none"]

\* ("Bad data.  Got %s " % request.data, 400)
BadData(raw) == Reply(400, <<"Bad data.  Got %s ", raw>>, {})

\* check_request(f).check, for the content type the environ holds.
check_with(rq, content_type, body) ==
    IF content_type = Absent
    THEN Done(rq, Raised("KeyError"))
    ELSE LET matched == mimetype_regex(content_type)
         IN  IF matched = <<"nomatch">>
             THEN Done(rq, Reply(415, <<"Unsupported serialization format %s",
                                        content_type>>, {}))
             ELSE IF matched[2] \notin config.formats
             THEN Done(rq, Reply(415, <<"Unsupported serialization format '%s'",
                                        matched[2]>>, {}))
             ELSE LET loaded == [rq EXCEPT !.body = body,
                                           !.calls = Append(@, "loads")]
                  IN  IF loaded.body.loads = <<"raise", "ValueError", "loads">>
                      THEN Done(loaded, BadData(loaded.body.raw))
                      ELSE IF IsRaise(loaded.body.loads)
                      THEN Done(loaded, Raised(loaded.body.loads[2]))
                      ELSE [loaded EXCEPT
                                !.pc = HandlerOf(rq.endpoint),
                                !.payload = loaded.body.loads,
                                !.serial = matched[2],
                                !.calls = Append(@, HandlerOf(rq.endpoint))]

check(w) ==
    /\ req[w].pc = "check"
    /\ \E header \in ContentTypeHeaders, body \in BodiesOf(req[w].endpoint) :
       \E content_type \in EnvironValues(header) :
        req' = [req EXCEPT ![w] =
                  check_with([req[w] EXCEPT !.header = header,
                                            !.calls = Append(@, "check")],
                             content_type, body)]
    /\ UNCHANGED <<config, data, filesystem, served, codecVars>>

\* GET /datashape
shape(w) ==
    /\ req[w].pc = "shape"
    /\ req' = [req EXCEPT ![w] =
                 Done([req[w] EXCEPT !.calls = Append(@, "shape")],
                      Reply(200, <<"pprint", discover(data)>>, {}))]
    /\ UNCHANGED <<config, data, filesystem, served, codecVars>>

\* ------------------------------------------------------------ /compute

\* requested_profiler_output of compserver.
RequestedOutput(payload) ==
    Get(payload, "profiler_output", config.profiler_output)

\* Profiling with profile_by_default taken alone, whatever output is asked.
Profiling_IgnoringOutput(payload) ==
    /\ config.allow_profiler
    /\ \/ Truthy(Get(payload, "profile", NoneV))
       \/ config.profile_by_default

\* profiling of compserver.
Profiling(payload) ==
    /\ config.allow_profiler
    /\ \/ Truthy(Get(payload, "profile", NoneV))
       \/ (config.profile_by_default /\ Truthy(RequestedOutput(payload)))

\* ProfilingDisabled with the check left out.
ProfilingDisabled_Never(payload) == FALSE

\* if profile and not allow_profiler
ProfilingDisabled(payload) ==
    Truthy(Get(payload, "profile", NoneV)) /\ ~config.allow_profiler

\* The body of compserver down to the registration of profiler.disable.
compserver_setup(w) ==
    /\ req[w].pc = "compserver"
    /\ LET rq == req[w]
           payload == rq.payload
       IN  req' = [req EXCEPT ![w] =
             IF payload[1] # "map"
             THEN Done(rq, Raised("AttributeError"))
             ELSE IF ProfilingDisabled(payload)
             THEN Done(rq, Reply(403, <<"profiling is disabled on this server">>, {}))
             ELSE IF ~Profiling(payload)
             THEN [rq EXCEPT !.pc = "bind"]
             ELSE IF /\ config.profiler_output = ResponseSink
                     /\ RequestedOutput(payload) # ResponseSink
             THEN Done(rq, Reply(403, <<"local filepaths are disabled on this server">>,
                                 {}))
             ELSE [rq EXCEPT !.pc = "bind",
                             !.profiling = TRUE,
                             !.profiler_output = RequestedOutput(payload),
                             !.profiler = "enabled",
                             !.stack = Append(@, "profiler.disable"),
                             !.calls = Append(@, "profiler.enable")]]
    /\ UNCHANGED <<config, data, filesystem, served, codecVars>>

\* ns of compserver: the namespace of the payload with ':leaf' bound to the
\* symbol of the hosted data.
BindingNamespace(payload) ==
    LET given == Get(payload, "namespace", <<"map", EmptyNamespace>>)[2]
    IN  [k \in DOMAIN given \cup {":leaf"} |->
            IF k = ":leaf" THEN symbol(<<"prim", "leaf">>, discover(data))
            ELSE given[k]]

\* expr = from_tree(payload['expr'], namespace=ns) and the assertion on its
\* leaves: the expression, or the exception raised.
BoundExpr(payload) ==
    IF "expr" \notin DOMAIN payload[2]
    THEN <<"raise", "KeyError", "expr">>
    ELSE LET expr == from_tree(payload[2]["expr"], BindingNamespace(payload))
         IN  IF IsRaise(expr) THEN expr
             ELSE IF expr[1] # "expr"
             THEN <<"raise", "AttributeError", "_leaves">>
             ELSE IF Cardinality(Leaves(expr)) # 1
             THEN <<"raise", "AssertionError", "">>
             ELSE expr

compserver_bind(w) ==
    /\ req[w].pc = "bind"
    /\ LET rq == [req[w] EXCEPT !.calls = Append(@, "from_tree")]
           expr == BoundExpr(rq.payload)
       IN  req' = [req EXCEPT ![w] =
             IF IsRaise(expr)
             THEN Done(CloseStack(rq), Raised(expr[2]))
             ELSE [rq EXCEPT !.pc = "execute", !.expr = expr]]
    /\ UNCHANGED <<config, data, filesystem, served, codecVars>>

\* ExecutionFailure with the NotImplementedError clause left out.
ExecutionFailure_NoUnsupported(rq, error) ==
    Done(CloseStack([rq EXCEPT !.error = error]),
         Reply(500, <<"Computation failed with message:\n%s: %s",
                      error.kind, error.msg>>, {}))

\* ExecutionFailure going on to the response instead of returning.
ExecutionFailure_GoesOn(rq, error) ==
    [rq EXCEPT !.pc = "response", !.error = error]

\* The except clauses around compute and serial.materialize.
ExecutionFailure(rq, error) ==
    IF error.unsupported
    THEN Done(CloseStack([rq EXCEPT !.error = error]),
              Reply(501, <<"Computation not supported:\n%s", error.msg>>, {}))
    ELSE Done(CloseStack([rq EXCEPT !.error = error]),
              Reply(500, <<"Computation failed with message:\n%s: %s",
                           error.kind, error.msg>>, {}))

\* compute(expr, {leaf: dataset}, **compute_kwargs)
compserver_compute(w) ==
    /\ req[w].pc = "execute"
    /\ LET rq == [req[w] EXCEPT !.calls = Append(@, "compute")]
       IN  \/ req' = [req EXCEPT ![w] = [rq EXCEPT !.pc = "materialize",
                                                   !.result = "computed"]]
           \/ \E error \in EngineErrors :
                req' = [req EXCEPT ![w] = ExecutionFailure(rq, error)]
    /\ UNCHANGED <<config, data, filesystem, served, codecVars>>

\* serial.materialize(..., expr.dshape, odo_kwargs)
compserver_materialize(w) ==
    /\ req[w].pc = "materialize"
    /\ LET rq == [req[w] EXCEPT !.calls = Append(@, "materialize")]
       IN  \/ req' = [req EXCEPT ![w] = [rq EXCEPT !.pc = "response",
                                                   !.result = "materialized"]]
           \/ \E error \in EngineErrors :
                req' = [req EXCEPT ![w] = ExecutionFailure(rq, error)]
    /\ UNCHANGED <<config, data, filesystem, served, codecVars>>

\* response = {...}, the last statement under the ExitStack, and the exit
\* of the with block.
compserver_response(w) ==
    /\ req[w].pc = "response"
    /\ LET rq == [req[w] EXCEPT !.calls = Append(@, "data_dumps")]
       IN  \/ req' = [req EXCEPT ![w] =
                [CloseStack(rq) EXCEPT
                    !.pc = IF rq.profiling THEN "teardown" ELSE "dumps",
                    !.response = [datashape |-> <<"pprint", rq.expr>>,
                                  data |-> <<"data_dumps", rq.result>>,
                                  names |-> <<"fields", rq.expr>>,
                                  profiler_output |-> Absent]]]
           \/ req' = [req EXCEPT ![w] = Done(CloseStack(rq), Raised("TypeError"))]
    /\ UNCHANGED <<config, data, filesystem, served, codecVars>>

\* str(expr): the text of an expression, which names a symbol by its name
\* alone.
RECURSIVE ExprText(_)
ExprText(e) ==
    CASE e[1] = "expr" /\ e[2] = SymbolCls -> e[3][1]
      [] e[1] = "expr" /\ e[2] # SymbolCls ->
            <<"text", ClassName(e[2]), [i \in DOMAIN e[3] |-> ExprText(e[3][i])]>>
      [] OTHER -> e

expr_md5(expr) == <<"md5", ExprText(expr)>>

\* int(datetime.utcnow().timestamp()) at the time of a request.
Timestamps == {"1446336000", "1446336001"}

\* _prof_path without the subdirectory of the expression.
_prof_path_NoHash(profiler_output, expr, timestamp) ==
    PathJoin(<<profiler_output[2]>>, timestamp)

\* The directory _prof_path makes and the path it returns.
ProfDir(profiler_output, expr) == PathJoin(<<profiler_output[2]>>, expr_md5(expr))
_prof_path(profiler_output, expr, timestamp) ==
    PathJoin(ProfDir(profiler_output, expr), timestamp)

\* if profiling: ... after the with block of compserver.
compserver_teardown(w) ==
    /\ req[w].pc = "teardown"
    /\ LET rq == req[w]
       IN  IF rq.profiler_output = ResponseSink
           THEN /\ req' = [req EXCEPT ![w] =
                     [rq EXCEPT !.pc = "dumps",
                                !.response.profiler_output = <<"bytes", "stats">>,
                                !.calls = Append(@, "marshal.dump")]]
                /\ UNCHANGED filesystem
           ELSE IF rq.profiler_output = NoneV
           THEN \* os.path.join(None, ...)
                /\ req' = [req EXCEPT ![w] = Done(rq, Raised("TypeError"))]
                /\ UNCHANGED filesystem
           ELSE \/ \E timestamp \in Timestamps :
                    /\ filesystem' =
                         [ensure_dir(filesystem, ProfDir(rq.profiler_output, rq.expr))
                            EXCEPT !.files = @ \cup
                               {_prof_path(rq.profiler_output, rq.expr, timestamp)}]
                    /\ req' = [req EXCEPT ![w] =
                         [rq EXCEPT !.pc = "dumps",
                                    !.calls = Append(Append(@, "open"), "marshal.dump")]]
                \/ \* the directory or the file cannot be written
                   /\ req' = [req EXCEPT ![w] = Done(rq, Raised("OSError"))]
                   /\ UNCHANGED filesystem
    /\ UNCHANGED <<config, data, served, codecVars>>

\* return serial.dumps(response)
compserver_dumps(w) ==
    /\ req[w].pc = "dumps"
    /\ LET rq == [req[w] EXCEPT !.calls = Append(@, "dumps")]
       IN  \/ req' = [req EXCEPT ![w] =
                        Done(rq, Reply(200, <<"dumps", rq.response>>, {}))]
           \/ req' = [req EXCEPT ![w] = Done(rq, Raised("TypeError"))]
    /\ UNCHANGED <<config, data, filesystem, served, codecVars>>

\* ---------------------------------------------------------------- /add

\* Resources leaving out the descriptors that do not resolve.
Resources_Resolved(payload) ==
    [k \in {n \in DOMAIN payload[2] : ~IsRaise(resource(payload[2][n]))} |->
        resource(payload[2][k])]

\* valmap(resource, payload)
Resources(payload) == [k \in DOMAIN payload[2] |-> resource(payload[2][k])]

\* Updated keeping the entries the registry already has.
Updated_KeepExisting(registry, resources) ==
    <<"dict", [k \in DOMAIN registry[2] \cup DOMAIN resources |->
                  IF k \in DOMAIN registry[2] THEN registry[2][k] ELSE resources[k]]>>

\* data.update(resources)
Updated(registry, resources) ==
    <<"dict", [k \in DOMAIN registry[2] \cup DOMAIN resources |->
                  IF k \in DOMAIN resources THEN resources[k] ELSE registry[2][k]]>>

addserver(w) ==
    /\ req[w].pc = "addserver"
    /\ LET rq == req[w]
       IN  IF data[1] # "dict"
           THEN /\ req' = [req EXCEPT ![w] =
                      Done(rq, Reply(422, <<"Cannot update blaze server data">>, {}))]
                /\ UNCHANGED data
           ELSE IF rq.payload[1] # "map"
           THEN /\ req' = [req EXCEPT ![w] =
                      Done(rq, Reply(422, <<"Cannot update blaze server with payload">>,
                                     {}))]
                /\ UNCHANGED data
           ELSE IF \E k \in DOMAIN Resources(rq.payload) :
                        IsRaise(Resources(rq.payload)[k])
           THEN /\ req' = [req EXCEPT ![w] =
                      Done([rq EXCEPT !.calls = Append(@, "resource")],
                           Raised("NotImplementedError"))]
                /\ UNCHANGED data
           ELSE /\ data' = Updated(data, Resources(rq.payload))
                /\ req' = [req EXCEPT ![w] =
                      Done([rq EXCEPT !.calls = Append(Append(@, "resource"), "update")],
                           Reply(200, <<"OK">>, {}))]
    /\ UNCHANGED <<config, filesystem, served, codecVars>>

\* The reply is handed to the transport layer; the thread is free again.
Finish(w) ==
    /\ req[w].pc = "done"
    /\ req' = [req EXCEPT ![w] = IdleReq]
    /\ served' = served + 1
    /\ UNCHANGED <<config, data, filesystem, codecVars>>

\* ------------------------------------------------------- specification

\* The thread of a server run without threads (the default of app.run).
MainThread == CHOOSE w \in Workers : \A v \in Workers : w <= v

Next ==
    \/ Arrive(MainThread)
    \/ authorized(MainThread)
    \/ check(MainThread)
    \/ shape(MainThread)
    \/ compserver_setup(MainThread)
    \/ compserver_bind(MainThread)
    \/ compserver_compute(MainThread)
    \/ compserver_materialize(MainThread)
    \/ compserver_response(MainThread)
    \/ compserver_teardown(MainThread)
    \/ compserver_dumps(MainThread)
    \/ addserver(MainThread)
    \/ Finish(MainThread)

Spec == Init /\ [][Next]_vars

\* ------------------------------------------- the codec exercised alone

CodecPrims == {<<"prim", "x">>, <<"prim", "t">>, NoneV}

CodecSymbols ==
    {symbol(<<"prim", n>>, <<"prim", "int32">>) : n \in {"t", "s"}}

\* The index of a Slice node: a tuple holding one _slice.
CodecIndices ==
    {<<"tuple", << <<"_slice", <<a, b, NoneV>> >> >> >> :
        a \in {NoneV}, b \in {<<"prim", "x">>, <<"prim", "t">>}}

\* The expressions of nesting depth at most d over these symbols.
RECURSIVE Exprs(_)
Exprs(d) ==
    IF d = 0 THEN CodecSymbols
    ELSE LET sub == Exprs(d - 1)
         IN  sub
             \cup {<<"expr", SumCls, <<c>> >> : c \in sub}
             \cup {<<"expr", FieldCls, <<c, p>> >> : c \in sub, p \in CodecPrims}
             \cup {<<"expr", SliceCls, <<c, i>> >> : c \in sub, i \in CodecIndices}
             \cup {<<"expr", MergeCls, <<c, s>> >> : c \in sub, s \in CodecSymbols}

\* What to_tree is given: an expression, a base value, a tuple or a slice.
CodecValues(d) ==
    Exprs(d) \cup CodecPrims
    \cup {<<"tuple", <<c, p>> >> : c \in Exprs(d), p \in CodecPrims}
    \cup {<<"_slice", <<a, b, NoneV>> >> : a \in CodecPrims, b \in CodecPrims}

CodecAliases == {<<"prim", ":leaf">>, <<"prim", "x">>}

\* The expressions a name table gives an alias to.
NameKeys ==
    CodecSymbols
    \cup {<<"expr", FieldCls, <<symbol(<<"prim", "t">>, <<"prim", "int32">>),
                                <<"prim", "x">> >> >>}

\* The name tables: expression -> alias, no alias given twice.
NameTables ==
    UNION {{n \in [keys -> CodecAliases] :
                \A k1 \in keys, k2 \in keys : n[k1] = n[k2] => k1 = k2} :
           keys \in SUBSET NameKeys}

\* The namespace that undoes a name table: alias -> expression.
InverseNames(names) ==
    [a \in {names[k][2] : k \in DOMAIN names} |->
        CHOOSE k \in DOMAIN names : names[k][2] = a]

\* The server, not running.
ServerOff ==
    /\ config = RegisteredConfig([formats |-> {"json"}, authorization |-> "None",
                                  allow_profiler |-> FALSE, profiler_output |-> NoneV,
                                  profile_by_default |-> FALSE])
    /\ data = <<"other", <<"frame", "accounts">>>>
    /\ filesystem = EmptyFilesystem
    /\ req = [w \in Workers |-> IdleReq]
    /\ served = 0

InitCodec ==
    /\ ServerOff
    /\ cExpr \in CodecValues(MaxDepth)
    /\ cNames \in NameTables
    /\ cTree = NoneV
    /\ cBack = NoneV
    /\ cpc = "start"

\* tree = to_tree(expr, names)
Encode ==
    /\ cpc = "start"
    /\ cTree' = to_tree(cExpr, cNames)
    /\ cpc' = "encoded"
    /\ UNCHANGED <<cExpr, cNames, cBack, serverVars>>

\* from_tree(tree, namespace) with the namespace that undoes names
Decode ==
    /\ cpc = "encoded"
    /\ cBack' = from_tree(cTree, InverseNames(cNames))
    /\ cpc' = "decoded"
    /\ UNCHANGED <<cExpr, cNames, cTree, serverVars>>

NextCodec == Encode \/ Decode

SpecCodec == InitCodec /\ [][NextCodec]_vars

\* ------------------------------------------ from_tree exercised alone

\* The base values of the wire trees from_tree is given.
WirePrims == {<<"prim", "x">>, <<"prim", "t">>, LeafAlias, NoneV}

\* The wire trees of symbols; the name or the datashape of some is equal to
\* an alias.
WireSymbols ==
    {<<"dict", "Symbol", <<n, d, NoneV>> >> :
        n \in {<<"prim", "x">>, <<"prim", "t">>}, d \in {<<"prim", "int32">>}}
    \cup {<<"dict", "Symbol", << <<"prim", "t">>, <<"prim", "x">>, NoneV>> >>,
          <<"dict", "InteractiveSymbol",
            <<NoneV, <<"prim", "int32">>, <<"prim", "x">> >> >>}

\* The operation tags of the other nodes: in both namespaces (Field, Data),
\* in the catalogue alone (Merge), nowhere (NotARealOp).
WireTags == {"Field", "Data", "Merge", "NotARealOp"}

\* The wire trees of nesting depth at most d.
RECURSIVE WireTrees(_)
WireTrees(d) ==
    IF d = 0 THEN WirePrims \cup WireSymbols
    ELSE LET sub == WireTrees(d - 1)
         IN  sub
             \cup {<<"dict", op, <<a, b>> >> : op \in WireTags, a \in sub, b \in WirePrims}
             \cup {<<"list", <<a, b>> >> : a \in sub, b \in WirePrims}
             \cup {<<"dict", "slice", <<a, b, NoneV>> >> : a \in WirePrims, b \in WirePrims}

InitDecode ==
    /\ ServerOff
    /\ cExpr = NoneV
    /\ cNames \in NameTables
    /\ cTree \in WireTrees(MaxDepth - 1)
    /\ cBack = NoneV
    /\ cpc = "encoded"

NextDecode == Decode

SpecDecode == InitDecode /\ [][NextDecode]_vars

\* ------------------------------------------- the server run with threads

\* app.run(threaded=True): the framework starts one thread per request, so
\* a handler thread serves one request and ends. The requests of interest
\* are those that passed authorization and negotiation.

JsonHeader == <<"ct", "application/vnd.blaze+", "json">>

\* The hosted data of the threaded server: a dict of named datasets.
InitialRegistry == <<"dict", [n \in {"accounts"} |-> <<"frame", "accounts">>]>>

\* The payloads of the /add requests sent to the threaded server.
ThreadedAddPayloads ==
    {MapOf([x |-> GoodUri, accounts |-> GoodUri]),
     MapOf([x |-> OtherUri, accounts |-> OtherUri]),
     MapOf([x |-> GoodUri, accounts |-> Absent])}

ThreadedBodies(endpoint) ==
    IF endpoint = "add"
    THEN {[raw |-> <<"serialized">>, loads |-> p] : p \in ThreadedAddPayloads}
    ELSE {[raw |-> <<"serialized">>,
           loads |-> MapOf([profile |-> p, profiler_output |-> Absent,
                            expr |-> GoodExprTree])] : p \in {Absent, TrueV}}

InitThreaded ==
    /\ config = RegisteredConfig([formats |-> {"json"}, authorization |-> "None",
                                  allow_profiler |-> TRUE,
                                  profiler_output |-> ResponseSink,
                                  profile_by_default |-> FALSE])
    /\ data = InitialRegistry
    /\ filesystem = EmptyFilesystem
    /\ req = [w \in Workers |-> IdleReq]
    /\ served = 0
    /\ CodecIdle

\* A request is handed to a new thread, which runs authorized and check: the
\* predicate accepts, the content type names json and the body decodes.
\* These touch nothing that another thread writes.
Route(w) ==
    /\ req[w].pc = "idle"
    /\ \E endpoint \in Endpoints :
        LET rq == [IdleReq EXCEPT !.endpoint = endpoint, !.calls = <<"auth">>]
        IN  IF endpoint = "datashape"
            THEN req' = [req EXCEPT ![w] = [rq EXCEPT !.pc = "shape"]]
            ELSE \E body \in ThreadedBodies(endpoint) :
                    req' = [req EXCEPT ![w] =
                        check_with([rq EXCEPT !.header = JsonHeader,
                                              !.calls = Append(@, "check")],
                                   JsonHeader, body)]
    /\ UNCHANGED <<config, data, filesystem, served, codecVars>>

\* addserver down to valmap(resource, payload), the argument of data.update.
addserver_valmap(w) ==
    /\ req[w].pc = "addserver"
    /\ LET rq == req[w]
       IN  req' = [req EXCEPT ![w] =
             IF data[1] # "dict"
             THEN Done(rq, Reply(422, <<"Cannot update blaze server data">>, {}))
             ELSE IF rq.payload[1] # "map"
             THEN Done(rq, Reply(422, <<"Cannot update blaze server with payload">>, {}))
             ELSE IF \E k \in DOMAIN Resources(rq.payload) :
                        IsRaise(Resources(rq.payload)[k])
             THEN Done([rq EXCEPT !.calls = Append(@, "resource")],
                       Raised("NotImplementedError"))
             ELSE [rq EXCEPT !.pc = "update",
                             !.resources = Resources(rq.payload),
                             !.calls = Append(@, "resource")]]
    /\ UNCHANGED <<config, data, filesystem, served, codecVars>>

\* SetItem putting the entry in place of the whole registry.
SetItem_Replace(registry, k, v) == <<"dict", [n \in {k} |-> v]>>

\* registry[k] = v
SetItem(registry, k, v) ==
    <<"dict", [n \in DOMAIN registry[2] \cup {k} |->
                  IF n = k THEN v ELSE registry[2][n]]>>

\* data.update(...) stores one more entry. No lock is held: the update of a
\* mutable mapping is a loop of item assignments, between which the other
\* threads run (the update of a builtin dict is the schedule that takes
\* these steps in a row).
addserver_setitem(w) ==
    /\ req[w].pc = "update"
    /\ \E k \in DOMAIN req[w].resources :
        /\ data' = SetItem(data, k, req[w].resources[k])
        /\ req' = [req EXCEPT ![w].resources =
                      [n \in DOMAIN req[w].resources \ {k} |-> req[w].resources[n]]]
    /\ UNCHANGED <<config, filesystem, served, codecVars>>

\* data.update(...) is through; return 'OK'
addserver_return(w) ==
    /\ req[w].pc = "update"
    /\ DOMAIN req[w].resources = {}
    /\ req' = [req EXCEPT ![w] =
                 Done([req[w] EXCEPT !.calls = Append(@, "update")],
                      Reply(200, <<"OK">>, {}))]
    /\ UNCHANGED <<config, data, filesystem, served, codecVars>>

NextThreaded ==
    \E w \in Workers :
        \/ Route(w)
        \/ shape(w)
        \/ compserver_setup(w)
        \/ compserver_bind(w)
        \/ compserver_compute(w)
        \/ compserver_materialize(w)
        \/ compserver_response(w)
        \/ compserver_teardown(w)
        \/ compserver_dumps(w)
        \/ addserver_valmap(w)
        \/ addserver_setitem(w)
        \/ addserver_return(w)

SpecThreaded == InitThreaded /\ [][NextThreaded]_vars

\* --------------------------------------------------------------- claims

\* The handler thread has made this call for its request.
Called(rq, name) == \E i \in DOMAIN rq.calls : rq.calls[i] = name

\* The request has gone through the first step of compserver with a payload
\* that is a mapping.
SetUp(rq) ==
    /\ Called(rq, "compserver")
    /\ rq.pc # "compserver"
    /\ rq.payload[1] = "map"

\* ---------------------------------------------------------------- C1

\* C1: the codec round trip. For every expression and every name table,
\* decoding the encoding of the expression with the namespace that undoes
\* the name table gives back the expression.
C1_RoundTrip == cpc = "decoded" => cBack = cExpr

\* ---------------------------------------------------------------- C2

ComputeStatuses == {200, 400, 401, 403, 415, 500, 501}

\* C2: no failure escapes the /compute handler. Every /compute request
\* ends with a reply of one of the documented statuses, and no exception
\* leaves the view function.
C2_NoFailureEscapes ==
    \A w \in Workers :
        (req[w].pc = "done" /\ Called(req[w], "compserver")) =>
            /\ req[w].reply.raised = "none"
            /\ req[w].reply.status \in ComputeStatuses

\* ---------------------------------------------------------------- C3

\* C3: when compute or serial.materialize raises, a NotImplementedError is
\* answered with 501 and its message, any other exception with 500 and
\* exactly its kind name and its message; no response payload is built or
\* encoded.
C3_ExecutionErrors ==
    \A w \in Workers :
        LET rq == req[w]
        IN  rq.error # NoError =>
              /\ rq.pc = "done"
              /\ rq.reply.raised = "none"
              /\ rq.error.unsupported =>
                    /\ rq.reply.status = 501
                    /\ rq.reply.text =
                         <<"Computation not supported:\n%s", rq.error.msg>>
              /\ ~rq.error.unsupported =>
                    /\ rq.reply.status = 500
                    /\ rq.reply.text =
                         <<"Computation failed with message:\n%s: %s",
                           rq.error.kind, rq.error.msg>>
              /\ rq.response = NoResponse
              /\ ~Called(rq, "data_dumps")
              /\ ~Called(rq, "dumps")

\* serial.materialize raised an exception that is no NotImplementedError.
C3_Witness ==
    \E w \in Workers :
        /\ req[w].pc = "done"
        /\ req[w].error # NoError
        /\ ~req[w].error.unsupported
        /\ Called(req[w], "materialize")
        /\ req[w].reply.status = 500

\* ---------------------------------------------------------------- C4

\* C4: authorization comes first on every endpoint. The auth predicate is
\* the first thing called; when it rejects the credential the reply is 401
\* with a WWW-Authenticate header and nothing else is called for the
\* request; with no predicate configured no request is answered with 401.
C4_AuthFirst ==
    \A w \in Workers :
        LET rq == req[w]
        IN  /\ rq.calls # << >> => rq.calls[1] = "auth"
            /\ (rq.calls # << >> /\ ~AuthPredicate(config.auth, rq.credential)) =>
                  /\ rq.pc = "done"
                  /\ rq.reply.status = 401
                  /\ "WWW-Authenticate" \in rq.reply.headers
                  /\ rq.calls = <<"auth">>
            /\ (rq.calls # << >> /\ AuthPredicate(config.auth, rq.credential)) =>
                  rq.reply.status # 401
            /\ config.auth = "allow_all" => rq.reply.status # 401

\* A request to /add without a credential is rejected.
C4_Witness ==
    \E w \in Workers :
        /\ req[w].endpoint = "add"
        /\ req[w].calls = <<"auth">>
        /\ req[w].credential = "None"
        /\ req[w].reply.status = 401

\* The registry and the filesystem are left alone by a step that rejects a
\* credential (the other half of C4: no registry update takes place).
C4_NoUpdate ==
    [][\A w \in Workers :
          (req[w].pc = "authorized" /\ req'[w].reply.status = 401) =>
              (data' = data /\ filesystem' = filesystem)]_vars

\* ---------------------------------------------------------------- C5

\* The content type matches application/vnd.blaze+<format>, whatever the
\* format is.
MatchesPattern(header) ==
    header # Absent /\ header[2] = "application/vnd.blaze+"

\* C5: an authorized request to /compute or /add whose content-type header
\* is missing or does not match the pattern is answered with 415, and the
\* view function is not called.
C5_Negotiation ==
    \A w \in Workers :
        LET rq == req[w]
        IN  (rq.pc = "done" /\ Called(rq, "check") /\ ~MatchesPattern(rq.header)) =>
              /\ rq.reply.status = 415
              /\ ~Called(rq, HandlerOf(rq.endpoint))

\* ---------------------------------------------------------------- C6

\* C6: format selection follows the formats registered on the server. A
\* content type naming a registered format passes negotiation and the body
\* is decoded with that format; one naming any other format is answered
\* with 415.
C6_RegisteredFormats ==
    \A w \in Workers :
        LET rq == req[w]
        IN  (rq.pc = "done" /\ Called(rq, "check") /\ MatchesPattern(rq.header)) =>
              /\ rq.header[3] \in config.formats =>
                    (Called(rq, "loads") /\ rq.reply.status # 415)
              /\ rq.header[3] \notin config.formats => rq.reply.status = 415

\* ---------------------------------------------------------------- C7

\* serial.loads raised a ValueError on the body of the request.
MalformedBody(rq) ==
    /\ Called(rq, "loads")
    /\ rq.body.loads = <<"raise", "ValueError", "loads">>

\* C7 as stated: a body whose decoding raises a ValueError is answered with
\* 400, the text holding the raw body cut to a bounded size (so that the
\* longest bodies are not echoed whole), and the view function is not
\* called.
C7_BoundedEcho ==
    \A w \in Workers :
        LET rq == req[w]
        IN  MalformedBody(rq) =>
              /\ rq.pc = "done"
              /\ rq.reply.status = 400
              /\ rq.reply.text[1] = "Bad data.  Got %s "
              /\ \E n \in 0..Len(rq.body.raw) :
                    rq.reply.text[2] = SubSeq(rq.body.raw, 1, n)
              /\ Len(rq.reply.text[2]) < MaxBody
              /\ ~Called(rq, HandlerOf(rq.endpoint))

\* C7 as amended: a body whose decoding raises a ValueError is answered with
\* 400, the text holding the whole raw body whatever its size, and the view
\* function is not called.
C7_WholeEcho ==
    \A w \in Workers :
        LET rq == req[w]
        IN  MalformedBody(rq) =>
              /\ rq.pc = "done"
              /\ rq.reply.status = 400
              /\ rq.reply.text = <<"Bad data.  Got %s ", rq.body.raw>>
              /\ ~Called(rq, HandlerOf(rq.endpoint))

\* A body of the largest size is refused as malformed.
C7_Witness ==
    \E w \in Workers :
        /\ MalformedBody(req[w])
        /\ Len(req[w].body.raw) = MaxBody
        /\ req[w].reply.status = 400

\* ---------------------------------------------------------------- C8

\* C8: on a server with allow_profiler = false, a /compute request whose
\* payload has a true profile is answered with 403; no profiler is created,
\* the expression is not decoded and the engine is not called.
C8_ProfilingGate ==
    \A w \in Workers :
        LET rq == req[w]
        IN  (/\ SetUp(rq)
             /\ ~config.allow_profiler
             /\ "profile" \in DOMAIN rq.payload[2]
             /\ rq.payload[2]["profile"] = TrueV) =>
              /\ rq.pc = "done"
              /\ rq.reply.status = 403
              /\ rq.profiler = "none"
              /\ ~Called(rq, "profiler.enable")
              /\ ~Called(rq, "from_tree")
              /\ ~Called(rq, "compute")

\* A request with a good expression and profile = true is refused.
C8_Witness ==
    \E w \in Workers :
        /\ SetUp(req[w])
        /\ ~config.allow_profiler
        /\ Get(req[w].payload, "profile", NoneV) = TrueV
        /\ Get(req[w].payload, "expr", NoneV) = GoodExprTree
        /\ req[w].reply.status = 403

\* ---------------------------------------------------------------- C9

\* The profiler_output a request asks for: that of its payload or, when the
\* payload has none, the configured one.
Requested(rq) ==
    IF "profiler_output" \in DOMAIN rq.payload[2]
    THEN rq.payload[2]["profiler_output"]
    ELSE config.profiler_output

\* C9: on a server configured with profiler_output = ':response', a
\* /compute request that asks for any other profiler_output is answered with
\* 403 and not served.
C9_SinkForbidden ==
    \A w \in Workers :
        LET rq == req[w]
        IN  (/\ SetUp(rq)
             /\ config.profiler_output = ResponseSink
             /\ Requested(rq) # ResponseSink) =>
              /\ rq.pc = "done"
              /\ rq.reply.status = 403
              /\ ~Called(rq, "compute")

\* --------------------------------------------------------------- C10

\* allowed AND (profile OR (profileByDefault AND requested output present))
EffectiveProfiling(rq) ==
    /\ config.allow_profiler
    /\ \/ ("profile" \in DOMAIN rq.payload[2]
            /\ rq.payload[2]["profile"] \notin {NoneV, FalseV})
       \/ (config.profile_by_default /\ Requested(rq) \notin {NoneV, <<"prim", "">>})

\* The request asks for another sink than the only one the server allows.
SinkRefused(rq) ==
    config.profiler_output = ResponseSink /\ Requested(rq) # ResponseSink

\* No profiler output is written to disk or put into the response.
NoProfilerOutput(rq) ==
    /\ rq.response.profiler_output = Absent
    /\ ~Called(rq, "open")
    /\ ~Called(rq, "marshal.dump")

\* C10 as stated: a /compute request is run under the profiler exactly when
\* the effective profiling formula holds; otherwise no profiler is created
\* and no profiler output is produced.
C10_ProfiledExactlyWhen ==
    \A w \in Workers :
        LET rq == req[w]
        IN  SetUp(rq) =>
              /\ EffectiveProfiling(rq) <=> Called(rq, "profiler.enable")
              /\ ~EffectiveProfiling(rq) =>
                    (rq.profiler = "none" /\ NoProfilerOutput(rq))

\* C10 as amended: a /compute request is run under the profiler exactly
\* when the effective profiling formula holds and the request does not ask
\* for a sink other than ':response' on a server configured with
\* ':response' (such a request is refused with 403); in every other case no
\* profiler is created and no profiler output is produced.
C10_ProfiledUnlessRefused ==
    \A w \in Workers :
        LET rq == req[w]
        IN  SetUp(rq) =>
              /\ (EffectiveProfiling(rq) /\ ~SinkRefused(rq))
                    <=> Called(rq, "profiler.enable")
              /\ (EffectiveProfiling(rq) /\ SinkRefused(rq)) =>
                    (rq.pc = "done" /\ rq.reply.status = 403)
              /\ ~(EffectiveProfiling(rq) /\ ~SinkRefused(rq)) =>
                    (rq.profiler = "none" /\ NoProfilerOutput(rq))

\* A request without profile is profiled by default and answered with the
\* statistics in the response.
C10_Witness ==
    \E w \in Workers :
        /\ SetUp(req[w])
        /\ "profile" \notin DOMAIN req[w].payload[2]
        /\ Called(req[w], "profiler.enable")
        /\ req[w].reply.status = 200
        /\ req[w].response.profiler_output # Absent

\* --------------------------------------------------------------- C11

\* The payload of the request sets profile to false itself.
ProfileSetFalse(rq) ==
    "profile" \in DOMAIN rq.payload[2] /\ rq.payload[2]["profile"] = FalseV

\* C11: on a server constructed with profile_by_default = true, the
\* profiler is run on every computation whose payload does not set profile
\* to false, and on no computation whose payload sets profile to false.
C11_ProfileByDefault ==
    \A w \in Workers :
        LET rq == req[w]
        IN  (SetUp(rq) /\ config.profile_by_default) =>
              (Called(rq, "profiler.enable") <=> ~ProfileSetFalse(rq))

\* --------------------------------------------------------------- C12

\* C12: the profiler of a /compute request is released on every exit path.
\* It is disabled at most once; when the handler is left (with a reply or
\* with an exception) after the profiler was enabled, the profiler has been
\* disabled exactly once; and it is never enabled once the with block of
\* compserver is left.
C12_ProfilerReleased ==
    \A w \in Workers :
        LET rq == req[w]
        IN  /\ rq.disables <= 1
            /\ (rq.pc = "done" /\ Called(rq, "profiler.enable")) =>
                  (rq.disables = 1 /\ rq.profiler = "disabled")
            /\ rq.pc \in {"done", "teardown", "dumps", "idle"} =>
                  (rq.profiler # "enabled" /\ rq.stack = << >>)
            /\ ~Called(rq, "profiler.enable") => rq.disables = 0

\* The leaf assertion fails in a profiled request, and the profiler has been
\* disabled when the exception leaves the handler.
C12_Witness ==
    \E w \in Workers :
        /\ req[w].pc = "done"
        /\ req[w].reply.raised = "AssertionError"
        /\ Called(req[w], "profiler.enable")
        /\ req[w].disables = 1

\* --------------------------------------------------------------- C13

\* The teardown of a profiled request has run and the response is encoded.
TornDown(w) == req[w].pc = "teardown" /\ req'[w].pc = "dumps"

\* C13: the teardown of a successful profiled /compute request. With the
\* sink ':response' the serialized statistics are put into the response
\* under profiler_output and the filesystem is left alone; with a path as
\* sink one file is written at {sink}/{md5 of the text of the executed
\* expression}/{timestamp}, its directory existing afterwards, and the
\* response gets no profiler_output; the subdirectory depends on the sink
\* and on the text of the expression only. The response that is encoded
\* with status 200 is the one the teardown left.
C13_Teardown ==
    [][\A w \in Workers :
         /\ TornDown(w) =>
              LET rq == req[w]
                  subdir == <<rq.profiler_output[2], <<"md5", ExprText(rq.expr)>> >>
              IN  IF rq.profiler_output = ResponseSink
                  THEN /\ req'[w].response =
                            [rq.response EXCEPT !.profiler_output = <<"bytes", "stats">>]
                       /\ filesystem' = filesystem
                  ELSE /\ \E timestamp \in Timestamps :
                            filesystem'.files =
                                filesystem.files \cup {Append(subdir, timestamp)}
                       /\ subdir \in filesystem'.dirs
                       /\ filesystem.dirs \subseteq filesystem'.dirs
                       /\ req'[w].response = rq.response
                       /\ rq.response.profiler_output = Absent
         /\ (req[w].pc = "dumps" /\ req'[w].pc = "done"
                /\ req'[w].reply.status = 200) =>
              /\ req'[w].reply.text = <<"dumps", req[w].response>>
              /\ filesystem' = filesystem
       ]_vars

\* A profiled request with a path as sink is answered with 200, its profile
\* written to a file and not put into the response.
C13_Witness ==
    \E w \in Workers :
        /\ req[w].pc = "done"
        /\ req[w].reply.status = 200
        /\ Called(req[w], "open")
        /\ req[w].response.profiler_output = Absent
        /\ \E f \in filesystem.files :
              f[1] = req[w].profiler_output[2] /\ f[2] = expr_md5(req[w].expr)

\* --------------------------------------------------------------- C14

\* C14: on a server configured with a path as profiler_output, every
\* profile file written lies under the configured directory, whatever the
\* payload gives for profiler_output.
C14_Confined ==
    config.profiler_output # ResponseSink =>
        \A f \in filesystem.files : f[1] = config.profiler_output[2]

\* --------------------------------------------------------------- C15

\* The expr of the payload of the request, decoded or not.
ExprOf(rq) == Get(rq.payload, "expr", Absent)

ClientErrors == 400..499

\* C15: a /compute request whose expression holds a node of an operation
\* tag no constructor matches is answered with a 4xx status and a message
\* that contains the tag, and the engine is not called.
C15_UnknownOp ==
    \A w \in Workers :
        LET rq == req[w]
        IN  (SetUp(rq) /\ ExprOf(rq) = UnknownOpTree /\ Called(rq, "from_tree")) =>
              /\ rq.pc = "done"
              /\ rq.reply.raised = "none"
              /\ rq.reply.status \in ClientErrors
              /\ \E i \in DOMAIN rq.reply.text : rq.reply.text[i] = UnknownOpTree[2]
              /\ ~Called(rq, "compute")

\* --------------------------------------------------------------- C16

\* C16: the engine is called only on a decoded expression with exactly one
\* distinct leaf symbol; a request whose decoded expression has more than
\* one is answered with a 4xx status, no exception leaving the handler, and
\* the engine is not called.
C16_LeafCheck ==
    \A w \in Workers :
        LET rq == req[w]
        IN  /\ Called(rq, "compute") => Cardinality(Leaves(rq.expr)) = 1
            /\ (SetUp(rq) /\ ExprOf(rq) = TwoLeavesTree /\ Called(rq, "from_tree")) =>
                  /\ rq.pc = "done"
                  /\ rq.reply.raised = "none"
                  /\ rq.reply.status \in ClientErrors
                  /\ ~Called(rq, "compute")

\* --------------------------------------------------------------- C17

\* The view function of /add runs for the request of w in this step.
AddStep(w) == req[w].pc = "addserver" /\ req'[w].pc = "done"

\* Every descriptor of the payload resolves to a resource.
AllResolve(payload) ==
    \A k \in DOMAIN payload[2] : ~IsRaise(resource(payload[2][k]))

\* C17: /add. When the hosted data is no mutable mapping the reply is 422
\* and the data is unchanged; when the payload is no mapping the reply is
\* 422 and the registry is unchanged; otherwise, when every descriptor
\* resolves, afterwards every name of the payload is bound to its resource
\* (an entry of the same name being overwritten), every other name keeps its
\* value, and the reply is 'OK'.
C17_AddEffect ==
    [][\A w \in Workers :
         AddStep(w) =>
            LET payload == req[w].payload
                reply == req'[w].reply
            IN  /\ data[1] # "dict" => (reply.status = 422 /\ data' = data)
                /\ (data[1] = "dict" /\ payload[1] # "map") =>
                      (reply.status = 422 /\ data' = data)
                /\ (data[1] = "dict" /\ payload[1] = "map" /\ AllResolve(payload)) =>
                      /\ data'[1] = "dict"
                      /\ DOMAIN data'[2] = DOMAIN data[2] \cup DOMAIN payload[2]
                      /\ \A k \in DOMAIN payload[2] :
                            data'[2][k] = <<"resource", payload[2][k][2]>>
                      /\ \A k \in DOMAIN data[2] \ DOMAIN payload[2] :
                            data'[2][k] = data[2][k]
                      /\ reply.status = 200
                      /\ reply.text = <<"OK">>
                      /\ reply.raised = "none"
       ]_vars

\* An /add request has overwritten the entry of accounts and added x.
C17_Witness ==
    \E w \in Workers :
        /\ req[w].pc = "done"
        /\ req[w].endpoint = "add"
        /\ req[w].reply.text = <<"OK">>
        /\ data[1] = "dict"
        /\ DOMAIN data[2] = {"accounts", "x"}
        /\ data[2]["accounts"] = <<"resource", GoodUri[2]>>
        /\ DOMAIN req[w].payload[2] = {"accounts", "x"}

\* --------------------------------------------------------------- C18

\* Some descriptors of the payload resolve and some do not.
PartlyResolves(payload) ==
    /\ payload[1] = "map"
    /\ \E k \in DOMAIN payload[2] : IsRaise(resource(payload[2][k]))
    /\ \E k \in DOMAIN payload[2] : ~IsRaise(resource(payload[2][k]))

Adders ==
    {w \in Workers : /\ req[w].endpoint = "add"
                     /\ req[w].pc = "done"
                     /\ req[w].reply.status = 200}

\* No /add request is under way.
AddsCompleted == \A w \in Workers : req[w].endpoint = "add" => req[w].pc = "done"

\* The orders in which the threads of S can be lined up.
Orders(S) ==
    {order \in [1..Cardinality(S) -> S] :
        \A i, j \in 1..Cardinality(S) : order[i] = order[j] => i = j}

\* The registry after the /add requests of the threads of order, run one
\* after the other.
RECURSIVE ApplyAll(_, _)
ApplyAll(registry, order) ==
    IF order = << >> THEN registry
    ELSE ApplyAll(Updated(registry, Resources(req[Head(order)].payload)),
                  Tail(order))

\* The entry is whole: a dataset the server was constructed with, or a
\* resource a descriptor resolves to.
WholeEntry(k, v) ==
    \/ k \in DOMAIN InitialRegistry[2] /\ v = InitialRegistry[2][k]
    \/ \E uri \in {GoodUri, OtherUri} : v = resource(uri)

Stage(call) ==
    CASE call = "auth" -> 1
      [] call = "check" -> 2
      [] call = "loads" -> 3
      [] call \in {"compserver", "profiler.enable"} -> 4
      [] call = "from_tree" -> 5
      [] call = "compute" -> 6
      [] call \in {"materialize", "data_dumps"} -> 7
      [] call \in {"profiler.disable", "open", "marshal.dump"} -> 8
      [] call = "dumps" -> 9
      [] OTHER -> 0

\* The calls of a request that is served in full without profiling.
PlainCalls ==
    <<"auth", "check", "loads", "compserver", "from_tree", "compute",
      "materialize", "data_dumps", "dumps">>

\* calls without the calls of the profiler.
Unprofiled(calls) ==
    SelectSeq(calls, LAMBDA c : Stage(c) \notin {8} /\ c # "profiler.enable")

\* C20: a /compute request goes through AuthCheck, Negotiate, Decode,
\* ProfileSetup, ResolveBinding, Execute, Materialize, ProfileTeardown and
\* EncodeResponse in this order, never going back and making no call twice;
\* it ends at the first state that fails; the engine is called at most once
\* and only after all earlier states succeeded; and a 200 reply is given
\* only after Materialize and ProfileTeardown completed.
C20_StateOrder ==
    \A w \in Workers :
        LET rq == req[w]
            calls == rq.calls
        IN  rq.endpoint = "compute" =>
              /\ \A i, j \in DOMAIN calls :
                    i < j => (/\ Stage(calls[i]) <= Stage(calls[j])
                              /\ calls[i] # calls[j]
                              /\ Stage(calls[i]) > 0)
              /\ \E n \in 0..Len(PlainCalls) :
                    Unprofiled(calls) = SubSeq(PlainCalls, 1, n)
              /\ Called(rq, "profiler.enable") <=> rq.profiling
              /\ (rq.pc = "done" /\ rq.reply.status # 200) =>
                    LET last == Unprofiled(calls)[Len(Unprofiled(calls))]
                    IN  /\ rq.reply.status = 401 => last = "auth"
                        /\ rq.reply.status = 415 => last = "check"
                        /\ rq.reply.status = 400 => last = "loads"
                        /\ rq.reply.status = 403 => last = "compserver"
                        /\ rq.reply.status \in {500, 501} =>
                              last \in {"compute", "materialize"}
              /\ rq.error # NoError => rq.pc = "done"
              /\ (rq.pc = "done" /\ rq.reply.status = 200) =>
                    /\ Unprofiled(calls) = PlainCalls
                    /\ rq.result = "materialized"
                    /\ rq.profiling =>
                          /\ rq.profiler = "disabled"
                          /\ Called(rq, "marshal.dump")
                    /\ calls[Len(calls)] = "dumps"

\* A profiled request is served in full, its profile written to a file.
C20_Witness ==
    \E w \in Workers :
        /\ req[w].pc = "done"
        /\ req[w].reply.status = 200
        /\ req[w].calls =
              <<"auth", "check", "loads", "compserver", "profiler.enable",
                "from_tree", "compute", "materialize", "data_dumps",
                "profiler.disable", "open", "marshal.dump", "dumps">>

\* --------------------------------------------------------------- C21

\* The calls "profiler.enable" of a request.
Enables(rq) == Len(SelectSeq(rq.calls, LAMBDA c : c = "profiler.enable"))

\* C21 as stated: the profiler of a profiled /compute request is enabled
\* only while the request is in Execute or Materialize (compute and
\* serial.materialize), not while the expression is decoded and bound nor
\* while the result is encoded; each request has its own profiler, enabled
\* at most once, whatever the other threads do.
C21_ExecuteWindow ==
    \A w \in Workers :
        LET rq == req[w]
        IN  /\ rq.profiler = "enabled" => rq.pc \in {"execute", "materialize"}
            /\ Enables(rq) <= 1

\* C21 as amended: the profiler of a profiled /compute request is enabled
\* at the end of the profiler setup and stays enabled while the expression
\* is decoded and bound, during compute and serial.materialize and while
\* the response dict is built (the result data encoded); it is disabled
\* when the with block is left, before the teardown and the encoding of the
\* response; each request has its own profiler, enabled at most once,
\* whatever the other threads do.
C21_SetupToResponse ==
    \A w \in Workers :
        LET rq == req[w]
        IN  /\ rq.profiler = "enabled" <=>
                  (rq.profiling /\ rq.pc \in {"bind", "execute", "materialize",
                                              "response"})
            /\ rq.profiler # "none" <=> rq.profiling
            /\ rq.profiling <=> Called(rq, "profiler.enable")
            /\ Enables(rq) <= 1
            /\ rq.disables <= 1

\* The profilers of two requests are enabled at the same time, one while
\* its request decodes the expression and one while its request builds the
\* response.
C21_Witness ==
    \E v, w \in Workers :
        /\ v # w
        /\ req[v].profiler = "enabled" /\ req[v].pc = "bind"
        /\ req[w].profiler = "enabled" /\ req[w].pc = "response"

\* --------------------------------------------------------------- C22

\* The first signature of the catalogue whose first type has this name, or
\* "none".
CatalogueFirst(op) ==
    IF \E i \in DOMAIN ComputeUpSignatures : ClassName(ComputeUpSignatures[i]) = op
    THEN ComputeUpSignatures[
            CHOOSE i \in DOMAIN ComputeUpSignatures :
                /\ ClassName(ComputeUpSignatures[i]) = op
                /\ \A j \in 1..(i - 1) : ClassName(ComputeUpSignatures[j]) # op]
    ELSE "none"

\* The class of a tag by the order top-level namespace, expression module,
\* catalogue.
TopLevelFirst(op) ==
    IF op \in DOMAIN BlazeNamespace THEN BlazeNamespace[op]
    ELSE IF op \in DOMAIN BlazeExprNamespace THEN BlazeExprNamespace[op]
    ELSE CatalogueFirst(op)

\* The class of a tag by the order expression module, top-level namespace,
\* catalogue.
ExprModuleFirst(op) ==
    IF op \in DOMAIN BlazeExprNamespace THEN BlazeExprNamespace[op]
    ELSE IF op \in DOMAIN BlazeNamespace THEN BlazeNamespace[op]
    ELSE CatalogueFirst(op)

\* from_tree has decoded a wire tree whose root is a node with a tag.
DecodedNode == cpc = "decoded" /\ cTree[1] = "dict" /\ cTree[2] # "slice"

\* C22 as stated: while decoding, the tag of a node is looked up in the
\* top-level namespace, then in the expression module, then in the
\* catalogue of registered functions (by the name of the first type of a
\* signature); the first match gives the class of the decoded node, and a
\* tag found nowhere makes the decoding fail with an error naming it.
C22_TopLevelFirst ==
    DecodedNode =>
        IF TopLevelFirst(cTree[2]) = "none"
        THEN cBack = <<"raise", "ValueError", cTree[2]>>
        ELSE cBack[1] = "expr" => cBack[2] = TopLevelFirst(cTree[2])

\* C22 as amended: while decoding, the tag of a node is looked up in the
\* expression module first, and only when it is not there in the top-level
\* namespace, (the expression module again,) and the catalogue; the first
\* match gives the class of the decoded node, so a tag that both namespaces
\* define gets the expression module's; a tag found nowhere makes the
\* decoding fail with an error naming it, its args not being decoded.
C22_ExprModuleFirst ==
    DecodedNode =>
        IF ExprModuleFirst(cTree[2]) = "none"
        THEN cBack = <<"raise", "ValueError", cTree[2]>>
        ELSE (cBack[1] = "expr" /\ cBack[2] = ExprModuleFirst(cTree[2]))
             \/ (IsRaise(cBack) /\ cBack[3] # cTree[2])

\* A node of the tag Data, which the two namespaces define differently, is
\* decoded to the expression module's class.
C22_Witness ==
    /\ DecodedNode
    /\ cTree[2] = "Data"
    /\ BlazeNamespace["Data"] # BlazeExprNamespace["Data"]
    /\ cBack[1] = "expr"
    /\ cBack[2] = BlazeExprNamespace["Data"]

\* --------------------------------------------------------------- C23

\* The decoding of a wire tree as the claim describes it: the args of a
\* node of a Symbol-like tag are decoded without substitution (subst is
\* FALSE from there down); the args of every other node, the elements of a
\* sequence and the bounds of a slice are decoded as the node itself is; a
\* base value is replaced by its binding exactly when substitution is on
\* and the value is a key of the namespace.
RECURSIVE Claimed(_, _, _)
Claimed(tree, namespace, subst) ==
    CASE tree[1] = "dict" /\ tree[2] = "slice" ->
            <<"_slice", [i \in DOMAIN tree[3] |-> Claimed(tree[3][i], namespace, subst)]>>
      [] tree[1] = "dict" /\ tree[2] \in {"Symbol", "InteractiveSymbol"} ->
            <<"expr", ExprModuleFirst(tree[2]),
              [i \in DOMAIN tree[3] |-> Claimed(tree[3][i], namespace, FALSE)]>>
      [] tree[1] = "dict" /\ tree[2] \notin {"slice", "Symbol", "InteractiveSymbol"} ->
            <<"expr", ExprModuleFirst(tree[2]),
              [i \in DOMAIN tree[3] |-> Claimed(tree[3][i], namespace, subst)]>>
      [] tree[1] = "list" ->
            <<"tuple", [i \in DOMAIN tree[2] |-> Claimed(tree[2][i], namespace, subst)]>>
      [] OTHER ->
            IF subst /\ tree[2] \in DOMAIN namespace THEN namespace[tree[2]] ELSE tree

\* C23: namespace substitution in from_tree. Whenever from_tree decodes a
\* wire tree (no tag being unresolvable), the result is the one described:
\* the name and the datashape of a symbol are never replaced, even when
\* equal to a key of the namespace, and everywhere else a base value is
\* replaced by its binding exactly when it is a key of the namespace.
C23_Substitution ==
    (cpc = "decoded" /\ ~IsRaise(cBack)) =>
        cBack = Claimed(cTree, InverseNames(cNames), TRUE)

\* A Field of the symbol named x with the field name x is decoded under a
\* namespace that binds x: the field name is replaced, the symbol's name is
\* not.
C23_Witness ==
    /\ cpc = "decoded"
    /\ "x" \in DOMAIN InverseNames(cNames)
    /\ cTree = <<"dict", "Field",
                 << <<"dict", "Symbol", << <<"prim", "x">>, <<"prim", "int32">>, NoneV>> >>,
                    <<"prim", "x">> >> >>
    /\ cBack = <<"expr", FieldCls,
                 <<symbol(<<"prim", "x">>, <<"prim", "int32">>),
                   InverseNames(cNames)["x"]>> >>

=============================================================================
